---- MODULE Spec2Model ----
(***************************************************************************)
(* A model of the execution engine of py-cdp-reactive-flow-bot             *)
(* (src/src/py_cdp_reactive_flow_bot/engine.py) and of the caller that     *)
(* wraps a run (src/src/py_cdp_reactive_flow_bot/cli.py).                  *)
(*                                                                         *)
(* The engine is written as a chain of Rx operators over asyncio.  The     *)
(* model gives each operator the behaviour the rx library documents:       *)
(*   defer(f)       every subscription calls f; f calls the coroutine      *)
(*                  function _execute_single_step, which only creates the  *)
(*                  coroutine: its body runs as a task of the loop, and    *)
(*                  the task's done-callback delivers its result or error. *)
(*   timeout(t)     no item within t: the source is disposed (the task is  *)
(*                  cancelled) and an error is sent downstream.            *)
(*   retry(n)       the source is subscribed at most n times in all        *)
(*                  (rx: catch_with_iterable over n copies of the source). *)
(*   do_action      runs its on_next for every item that passes.           *)
(*   concat         subscribes the next source when the current completes. *)
(*   flat_map(m)    subscribes m(item) for every item at once and merges;  *)
(*                  it completes when the source and every inner sequence  *)
(*                  have completed; the first error ends it, and the       *)
(*                  subscription is disposed.                              *)
(*   Subject        on_next calls every subscribed observer, in the order  *)
(*                  of subscription, before it returns.                    *)
(* An action is one turn of the event loop: the end of an actuator call    *)
(* with the rest of the task's body, the done-callback of a task, or the   *)
(* timer of a timeout, each with the subscriptions it makes and the start  *)
(* of the tasks they create, up to their actuator call.  Between the end   *)
(* of a task and its done-callback other tasks may run.                    *)
(* Indices are 0-based as in the source; TLA+ sequences are 1-based, so    *)
(* the step at index i is steps[i + 1].                                    *)
(***************************************************************************)
EXTENDS Integers, Sequences, FiniteSets, TLC

\* ---------------------------------------------------------------- bounds
MaxSteps == 3        \* longest playbook
MaxRetries == 2      \* largest max_retries a step sets
MaxStepRuns == 4     \* step observables built in one run, over all its flows
NumObservers == 2    \* observers that may subscribe to state_stream
MaxRunSteps == 2     \* longest playbook run twice, or followed to its exit

\* ------------------------------------------------------ program constants
DefaultTimeout == 30000     \* step.get("timeout", 30000)

\* ------------------------------------------------------------ TaskState
RUNNING == "RUNNING"
SUCCESS == "SUCCESS"
FAILED == "FAILED"
RETRYING == "RETRYING"
PENDING == "PENDING"
TaskState == {PENDING, RUNNING, SUCCESS, FAILED, RETRYING}

\* ------------------------------------------------- Python values, encoded
\* k names the Python type; v holds the value (0 for None).
PyNone == [k |-> "none", v |-> 0]
PyInt(i) == [k |-> "int", v |-> i]
PyStr(s) == [k |-> "str", v |-> s]
PyDict(f) == [k |-> "dict", v |-> f]
PyList(s) == [k |-> "list", v |-> s]

\* bool(x) of Python: None, 0, "", {} and [] are false.
Truthy(x) ==
    CASE x.k = "none" -> FALSE
      [] x.k = "int" -> x.v # 0
      [] x.k = "str" -> x.v # ""
      [] x.k = "dict" -> DOMAIN x.v # {}
      [] x.k = "list" -> Len(x.v) > 0

\* d.get(key): the value, or None when the key is absent.
DictGet(d, key) == IF key \in DOMAIN d.v THEN d.v[key] ELSE PyNone

\* data == pattern of Python, for values of the encoding.
RECURSIVE PyEq(_, _)
PyEq(a, b) ==
    IF a.k # b.k THEN FALSE
    ELSE CASE a.k = "dict" ->
                /\ DOMAIN a.v = DOMAIN b.v
                /\ \A key \in DOMAIN a.v : PyEq(a.v[key], b.v[key])
           [] a.k = "list" ->
                /\ Len(a.v) = Len(b.v)
                /\ \A i \in 1..Len(a.v) : PyEq(a.v[i], b.v[i])
           [] OTHER -> a.v = b.v

\* A match that compares the elements of sequences position by position.
DeepPatternMatchPositional(data, pattern) ==
    IF pattern.k = "dict" /\ data.k = "dict"
    THEN \A key \in DOMAIN pattern.v : PyEq(DictGet(data, key), pattern.v[key])
    ELSE IF pattern.k = "list" /\ data.k = "list"
    THEN /\ Len(pattern.v) <= Len(data.v)
         /\ \A p \in 1..Len(pattern.v) : PyEq(data.v[p], pattern.v[p])
    ELSE PyEq(data, pattern)

RECURSIVE DeepPatternMatch(_, _)
DeepPatternMatch(data, pattern) ==
    IF pattern.k = "dict" /\ data.k = "dict"
    THEN \A key \in DOMAIN pattern.v :
            DeepPatternMatch(DictGet(data, key), pattern.v[key])
    ELSE IF pattern.k = "list" /\ data.k = "list"
    THEN \A p \in 1..Len(pattern.v) :
            \E d \in 1..Len(data.v) : DeepPatternMatch(data.v[d], pattern.v[p])
    ELSE PyEq(data, pattern)

\* --------------------------------------------------------------- results
\* What a state event or the executor's observer carries: nothing, the text
\* of an error, or a step's result (its "type" and its "data", None if absent).
NoResult == [tag |-> "none", type |-> "", data |-> PyNone]
ErrorOf(msg) == [tag |-> "error", type |-> msg, data |-> PyNone]
ResultOf(type, data) == [tag |-> "value", type |-> type, data |-> data]

\* The step kinds _execute_single_step knows; any other raises ValueError.
KnownKinds ==
    {"navigate", "click", "type", "wait_for_pattern", "extract_data",
     "conditional", "cdp_command"}

\* The result of a conditional step: no "data", and the outcome of the
\* condition under "result".
ConditionalResult(condition_result) ==
    [tag |-> "value", type |-> "conditional", data |-> PyNone,
     result |-> condition_result]

\* A match of "data" rules that does not look whether the result has data.
MatchesPatternAnyData(result, pattern) ==
    IF pattern.field = "type" /\ PyEq(PyStr(result.type), pattern.value)
    THEN TRUE
    ELSE IF pattern.field = "data"
    THEN DeepPatternMatch(result.data, pattern.value)
    ELSE FALSE

MatchesPattern(result, pattern) ==
    IF pattern.field = "type" /\ PyEq(PyStr(result.type), pattern.value)
    THEN TRUE
    ELSE IF pattern.field = "data" /\ Truthy(result.data)
    THEN DeepPatternMatch(result.data, pattern.value)
    ELSE FALSE

\* The first rule of rules, in declaration order, whose pattern matches;
\* 0 when none does.
FirstMatch(rules, result) ==
    LET hits == {r \in 1..Len(rules) : MatchesPattern(result, rules[r].pattern)}
    IN IF hits = {} THEN 0 ELSE CHOOSE r \in hits : \A q \in hits : r <= q

\* -------------------------------------------------------------- playbooks
\* A step specification: its kind, its retry and timeout settings and its
\* ordered routing rules (next_step_patterns).
StepSpec(type, max_retries, timeout, rules) ==
    [type |-> type, max_retries |-> max_retries, timeout |-> timeout, rules |-> rules]

Rule(field, value, goto_step) ==
    [pattern |-> [field |-> field, value |-> value], goto_step |-> goto_step]

\* The timeout settings of a step: 0 and None (no timeout), and a deadline.
Timeouts == {PyInt(0), PyNone, PyInt(DefaultTimeout)}

\* A rule that matches the result of a navigate step, and one that does not.
Hit(g) == Rule("type", PyStr("navigation"), g)
Miss(g) == Rule("type", PyStr("click"), g)

\* Two different jump targets of a playbook of n steps.
Targets2(n) == {pair \in (0..(n - 1)) \X (0..(n - 1)) : pair[1] # pair[2]}

\* The rule lists of a playbook of n steps: none, one matching rule, and the
\* two-rule lists whose second rule matches, behind a first one that matches
\* or not and has another target.
RuleLists(n) ==
    {<<>>}
    \cup {<<Hit(g)>> : g \in 0..(n - 1)}
    \cup {<<Miss(pair[1]), Hit(pair[2])>> : pair \in Targets2(n)}
    \cup {<<Hit(pair[1]), Hit(pair[2])>> : pair \in Targets2(n)}

\* The playbooks of the model: n navigate steps, one of which sets its own
\* retry and timeout policy and one of which carries routing rules; a step
\* that sets neither runs once and without a deadline.
PlaybooksOfLen(n) ==
    { [i \in 1..n |->
          StepSpec("navigate",
                   IF i = p THEN mr ELSE 0,
                   IF i = p THEN to ELSE PyInt(0),
                   IF i = r THEN rl ELSE <<>>)] :
      p \in 1..n, mr \in 0..MaxRetries, to \in Timeouts,
      r \in 1..n, rl \in RuleLists(n) }

Playbooks == UNION {PlaybooksOfLen(n) : n \in 1..MaxSteps}

\* ----------------------------------------------------------------- state
VARIABLES
    steps,       \* dsl_config["steps"]
    observers,   \* state_stream's observers, in the order they subscribed
    received,    \* what each observer's on_next was called with, in order
    published,   \* every _emit_state_update of the run, in order (history)
    ctx,         \* self.current_context: state["current_step"], last_result, data
    flows,       \* the execution flows built by _build_execution_flow
    run,         \* "setup", "running", "completed" or "error"; "timeout" when
                 \* run_playbook's wait for the end of the run has expired,
                 \* "aborted" when its setup has failed
    notes,       \* what the executor's observer was called with, in order
    routes,      \* every call of _pattern_based_routing, in order (history)
    attempts,    \* every attempt that ended and how, in order (history)
    faulty,      \* the observer whose callback raises, and on which states
    probe,       \* one call of a pure function: its arguments and result
    initial_data, \* dsl_config["initial_data"]
    other,       \* a second run started on the same framework
    closed       \* the calls of framework.close() made so far

vars == <<steps, observers, received, published, ctx, flows, run, notes, routes,
          attempts, faulty, probe, initial_data, other, closed>>

Observers == 1..NumObservers

\* _extract_data: the mapping of every key of the extraction configuration
\* to the value read from the page; in the model the configuration of a key
\* holds the value its read yields.  The mapping is returned and nothing else
\* is written.
ExtractData(extraction_config) ==
    PyDict([key \in DOMAIN extraction_config |-> extraction_config[key].yields])

\* _evaluate_condition for a data_check: context.data.get(data_path) ==
\* expected.
EvaluateCondition(condition_config) ==
    PyEq(DictGet(ctx.data, condition_config.data_path), condition_config.expected)

\* _wait_for_pattern: the kinds url, content and element wait for the page
\* to meet the condition, at most the pattern's own timeout; met tells
\* whether the page does.  page.wait_for_function and page.wait_for_selector
\* raise when the wait expires: the url branch lets the error pass, the
\* content and element branches catch it.  A custom check is awaited and its
\* answer returned.
WaitForPattern(pattern_config) ==
    CASE pattern_config.type = "url" ->
            [raised |-> ~pattern_config.met, matched |-> pattern_config.met]
      [] pattern_config.type \in {"content", "element"} ->
            [raised |-> FALSE, matched |-> pattern_config.met]
      [] pattern_config.type = "custom" ->
            [raised |-> FALSE, matched |-> pattern_config.met]

\* The result of a wait_for_pattern step: no "data", and the outcome of the
\* wait under "match".
PatternMatchResult(match_result) ==
    [tag |-> "value", type |-> "pattern_match", data |-> PyNone,
     matched |-> match_result.matched]

\* The step is a wait_for_pattern whose wait raises.
WaitRaises(step) ==
    step.type = "wait_for_pattern" /\ WaitForPattern(step.pattern).raised

\* The result a step of each kind builds when its actuator call returns.
StepResult(step) ==
    CASE step.type = "navigate" -> ResultOf("navigation", PyNone)
      [] step.type = "click" -> ResultOf("click", PyNone)
      [] step.type = "wait_for_pattern" ->
            PatternMatchResult(WaitForPattern(step.pattern))
      [] step.type = "extract_data" ->
            ResultOf("extraction", ExtractData(step.extract))
      [] step.type = "conditional" ->
            ConditionalResult(EvaluateCondition(step.condition))
      [] step.type = "cdp_command" -> ResultOf("cdp", PyNone)
      [] OTHER -> ResultOf(step.type, PyNone)

\* ------------------------------------------------------- state_stream
\* The update of _emit_state_update, without its timestamp.
Update(ev) == [step_index |-> ev.step_index, state |-> ev.state, result |-> ev.result]

\* A subject that calls only the observer that subscribed first.
SubjectOnNextFirstOnly(rcv, obs, update) ==
    [o \in Observers |->
        IF Len(obs) > 0 /\ obs[1] = o THEN Append(rcv[o], update) ELSE rcv[o]]

\* No call of _deep_pattern_match is followed.
NoProbe == [data |-> PyNone, pattern |-> PyNone, done |-> FALSE, matched |-> FALSE]

\* No observer's callback raises; the callback of observer o raises when it
\* is called with an update whose state is in on.
NoFaulty == [o |-> 0, on |-> {}]
CallbackRaises(o, update) == o = faulty.o /\ update.state \in faulty.on

\* Subject.on_next raises: the callback of a subscribed observer does.
OnNextRaises(obs, update) == \E i \in 1..Len(obs) : CallbackRaises(obs[i], update)

\* Subject.on_next: the subscribed observers are called with the update in
\* the order they subscribed; an exception of a callback leaves the loop, so
\* the observers behind it are not called.
SubjectOnNext(rcv, obs, update) ==
    [o \in Observers |->
        IF \E i \in 1..Len(obs) :
                /\ obs[i] = o
                /\ \A j \in 1..(i - 1) : ~CallbackRaises(obs[j], update)
        THEN Append(rcv[o], update) ELSE rcv[o]]

RECURSIVE SubjectOnNextAll(_, _, _)
SubjectOnNextAll(rcv, obs, evs) ==
    IF evs = <<>> THEN rcv
    ELSE SubjectOnNextAll(SubjectOnNext(rcv, obs, Update(Head(evs))), obs, Tail(evs))

\* ----------------------------------------------------------------- flows
\* A flow is concat(step observables of all_steps) | flat_map(routing), where
\* all_steps is steps[base:]; _create_step_observable numbers its steps from 0.
\*   pos   the index, in all_steps, of the step concat is subscribed to;
\*         the length of all_steps once concat has completed
\*   subs  the subscriptions retry has made to that step's deferred source
\*   task  the task of the current subscription:
\*         "awaiting" in its actuator call
\*         "ok" returned, its done-callback not yet run
\*         "cancelled" disposed     "failed" its error ended the run
\*         "misrouted" the routing of its result raised and ended the run
\*         "none" no task
FlowLen(fl) == Len(steps) - fl.base
FlowStep(fl, i) == steps[fl.base + i + 1]

\* _emit_state_update(step_index, state, result) by the step at pos of the
\* flow fl, which is flow number f; flow, orig (the step's index in steps)
\* and sub are history, and so is seen: the context as it is when the update
\* is published (what a callback reading current_context finds).
EvSeen(f, fl, state, result, seen) ==
    [step_index |-> fl.pos, state |-> state, result |-> result,
     flow |-> f, orig |-> fl.base + fl.pos, sub |-> fl.subs, seen |-> seen]

Ev(f, fl, state, result) == EvSeen(f, fl, state, result, ctx)

\* The end of an attempt of the step at pos of flow fl (history): outcome is
\* "ok" (the actuator call returned), "error" (it raised) or "timeout" (the
\* timer of timeout fired first).
Attempt(f, fl, outcome) ==
    [flow |-> f, orig |-> fl.base + fl.pos, sub |-> fl.subs, outcome |-> outcome]

\* The events evs are emitted, in order.
Publish(evs) ==
    /\ received' = SubjectOnNextAll(received, observers, evs)
    /\ published' = published \o evs

\* A task that is created begins with the loop's next callback: the first
\* thing _execute_single_step does is to publish RUNNING.
Begins(f, fl) == IF fl.task = "awaiting" THEN <<Ev(f, fl, RUNNING, NoResult)>> ELSE <<>>

\* The flow _build_execution_flow(steps[base:]) once subscribed: concat has
\* subscribed its first step, if it has one.
NewFlow(base) ==
    [base |-> base, pos |-> 0,
     subs |-> IF base < Len(steps) THEN 1 ELSE 0,
     task |-> IF base < Len(steps) THEN "awaiting" ELSE "none"]

Live == {"awaiting", "ok"}

\* A disposal that cancels nothing.
DisposeNothing(fls) == fls

\* Disposal of the subscription of the whole flow tree: every task in flight
\* is cancelled and no callback of it is served any more.
DisposeAll(fls) ==
    [i \in DOMAIN fls |->
        [fls[i] EXCEPT !.task = IF @ \in Live THEN "cancelled" ELSE @]]

\* A flat_map that completes as soon as its first source has completed.
AllCompletedEager(fls) == fls[1].task = "none"

AllCompleted(fls) == \A i \in DOMAIN fls : fls[i].task = "none"

\* A reading of timeout that takes 0 for a deadline.
HasTimeoutUnlessNone(step) == step.timeout.k # "none"

\* max_retries and timeout as _create_step_observable reads them.
HasTimeout(step) == ~PyEq(step.timeout, PyInt(0)) /\ step.timeout.k # "none"

\* A retry that subscribes its source two times more than max_retries.
RetrySubscriptionsExtra(step) == step.max_retries + 2

\* A step observable that retries although max_retries is 0.
RetrySubscriptionsUnguarded(step) == IF step.max_retries > 0 THEN step.max_retries ELSE 2

\* The subscriptions the step observable makes to its deferred source before
\* an error passes: retry(max_retries) when max_retries > 0, else the one.
RetrySubscriptions(step) == IF step.max_retries > 0 THEN step.max_retries ELSE 1

\* No second run is started.  Of a second run the model keeps its flow,
\* whether it has started, and the number of events published before it
\* replaced current_context (history).
NoOther ==
    [started |-> FALSE, at |-> 0,
     flow |-> [base |-> 0, pos |-> 0, subs |-> 0, task |-> "none"]]

\* The task of flow f holds a context that is no longer current_context: it
\* read self.current_context when it began, which is when it published its
\* RUNNING, and _execute_dsl_pipeline of the second run has replaced the
\* context since.
Stale(f) ==
    /\ other.started
    /\ \A j \in DOMAIN published :
            (/\ published[j].flow = f
             /\ published[j].orig = flows[f].base + flows[f].pos
             /\ published[j].sub = flows[f].subs) => j <= other.at

\* ExecutionContext(page, data = dsl_config.get("initial_data", {}),
\* state = {"current_step": 0, ...}), last_result None.
NewContext == [current_step |-> 0, last_result |-> NoResult, data |-> initial_data]

Init ==
    /\ steps \in Playbooks
    /\ observers = <<>>
    /\ received = [o \in Observers |-> <<>>]
    /\ published = <<>>
    /\ initial_data = PyDict(<<>>)
    /\ ctx = NewContext
    /\ flows = <<>>
    /\ run = "setup"
    /\ notes = <<>>
    /\ routes = <<>>
    /\ attempts = <<>>
    /\ faulty = NoFaulty
    /\ probe = NoProbe
    /\ other = NoOther
    /\ closed = 0

\* ----------------------------------------------------------------- caller
\* framework.state_stream.subscribe(...) before the run is started; the
\* observers subscribe in the order of their numbers.
SubscribeState(o) ==
    /\ run = "setup"
    /\ o = Len(observers) + 1
    /\ observers' = Append(observers, o)
    /\ UNCHANGED <<steps, faulty, probe, initial_data, other, closed,
                   received, published, ctx, flows, run, notes, routes,
                   attempts>>

\* executor.subscribe(...): _execute_dsl_pipeline creates the context, builds
\* the flow of all the steps and subscribes it.
StartRun ==
    /\ run = "setup"
    /\ Len(observers) = NumObservers
    /\ ctx' = NewContext
    /\ flows' = <<NewFlow(0)>>
    /\ Publish(Begins(1, NewFlow(0)))
    /\ run' = "running"
    /\ UNCHANGED <<steps, faulty, probe, initial_data, other, closed,
                   observers, notes, routes, attempts>>

\* ----------------------------------------------------------------- engine
\* _handle_step_result(result, observer), which engine.py calls and does not
\* define: the result of a step that was not routed elsewhere is passed to
\* the executor's observer.
HandleStepResult(result, at) == [kind |-> "next", result |-> result, at |-> at]

\* A call of the executor's observer: on_next with a result, on_error with an
\* error, or on_completed; at is the number of events published before the
\* call returned (history).
Note(kind, result, at) == [kind |-> kind, result |-> result, at |-> at]

\* A task that publishes SUCCESS before it updates the context.
TaskSucceedPublishesFirst(f) ==
    /\ flows[f].task = "awaiting"
    /\ FlowStep(flows[f], flows[f].pos).type \in KnownKinds
    /\ LET result == StepResult(FlowStep(flows[f], flows[f].pos)) IN
        /\ ~OnNextRaises(observers, Update(Ev(f, flows[f], SUCCESS, result)))
        /\ Publish(<<EvSeen(f, flows[f], SUCCESS, result, ctx)>>)
        /\ ctx' = [ctx EXCEPT !.last_result = result, !.current_step = flows[f].pos]
    /\ flows' = [flows EXCEPT ![f].task = "ok"]
    /\ attempts' = Append(attempts, Attempt(f, flows[f], "ok"))
    /\ UNCHANGED <<steps, faulty, probe, initial_data, other, closed,
                   observers, run, notes, routes>>

\* The actuator call returns: the task updates the context it read when it
\* began, publishes SUCCESS and returns the result.
TaskSucceed(f) ==
    /\ flows[f].task = "awaiting"
    /\ FlowStep(flows[f], flows[f].pos).type \in KnownKinds
    /\ ~WaitRaises(FlowStep(flows[f], flows[f].pos))
    /\ LET result == StepResult(FlowStep(flows[f], flows[f].pos))
           updated == [ctx EXCEPT !.last_result = result, !.current_step = flows[f].pos]
       IN
        /\ ~OnNextRaises(observers, Update(Ev(f, flows[f], SUCCESS, result)))
        /\ ctx' = IF Stale(f) THEN ctx ELSE updated
        /\ Publish(<<EvSeen(f, flows[f], SUCCESS, result, updated)>>)
    /\ flows' = [flows EXCEPT ![f].task = "ok"]
    /\ attempts' = Append(attempts, Attempt(f, flows[f], "ok"))
    /\ UNCHANGED <<steps, faulty, probe, initial_data, other, closed,
                   observers, run, notes, routes>>

\* An error of the current subscription of flow f reaches retry, after the
\* events evs: retry subscribes the source again while it has subscriptions
\* left; otherwise the error passes concat and flat_map to the executor's
\* observer, and the subscription of the flows is disposed.
HandleError(f, evs, msg) ==
    IF flows[f].subs < RetrySubscriptions(FlowStep(flows[f], flows[f].pos))
    THEN LET again == [flows[f] EXCEPT !.subs = @ + 1, !.task = "awaiting"] IN
         /\ flows' = [flows EXCEPT ![f] = again]
         /\ Publish(evs \o Begins(f, again))
         /\ UNCHANGED <<run, notes>>
    ELSE /\ flows' = DisposeAll([flows EXCEPT ![f].task = "failed"])
         /\ Publish(evs)
         /\ run' = "error"
         /\ notes' = Append(notes, Note("error", ErrorOf(msg), Len(published) + Len(evs)))

\* The actuator call raises, or the step's kind is unknown and the task
\* raises ValueError: the task publishes FAILED and raises again, and its
\* done-callback sends the error downstream.
TaskFail(f) ==
    /\ flows[f].task = "awaiting"
    /\ HandleError(f, <<Ev(f, flows[f], FAILED, ErrorOf("error"))>>, "error")
    /\ attempts' = Append(attempts, Attempt(f, flows[f], "error"))
    /\ UNCHANGED <<steps, faulty, probe, initial_data, other, closed,
                   observers, ctx, routes>>

\* The actuator call returns and a callback of state_stream raises on the
\* SUCCESS update: the context is already updated; the exception leaves
\* _emit_state_update inside the try of _execute_single_step, whose handler
\* publishes FAILED and raises, and the attempt ends as a failed one.
TaskSucceedRaises(f) ==
    /\ flows[f].task = "awaiting"
    /\ FlowStep(flows[f], flows[f].pos).type \in KnownKinds
    /\ LET result == StepResult(FlowStep(flows[f], flows[f].pos)) IN
        /\ OnNextRaises(observers, Update(Ev(f, flows[f], SUCCESS, result)))
        /\ ctx' = [ctx EXCEPT !.last_result = result, !.current_step = flows[f].pos]
        /\ HandleError(f, <<EvSeen(f, flows[f], SUCCESS, result, ctx'),
                             EvSeen(f, flows[f], FAILED, ErrorOf("callback"), ctx')>>,
                       "callback")
    /\ attempts' = Append(attempts, Attempt(f, flows[f], "callback"))
    /\ UNCHANGED <<steps, faulty, probe, initial_data, other, closed,
                   observers, routes>>

\* The timer of timeout(...) fires before the item: the task is cancelled,
\* which raises CancelledError in it (no Exception: nothing is published),
\* and a timeout error goes downstream.
StepTimeout(f) ==
    /\ flows[f].task \in Live
    /\ FlowStep(flows[f], flows[f].pos).type \in KnownKinds
    /\ HasTimeout(FlowStep(flows[f], flows[f].pos))
    /\ HandleError(f, <<>>, "Timeout")
    /\ attempts' = Append(attempts, Attempt(f, flows[f], "timeout"))
    /\ UNCHANGED <<steps, faulty, probe, initial_data, other, closed,
                   observers, ctx, routes>>

\* concat, after the step at pos of flow fl has completed: the next step of
\* all_steps is subscribed, or concat completes.
Advance(fl) ==
    IF fl.pos + 1 < FlowLen(fl)
    THEN [fl EXCEPT !.pos = @ + 1, !.subs = 1, !.task = "awaiting"]
    ELSE [fl EXCEPT !.pos = FlowLen(fl), !.subs = 0, !.task = "none"]

\* The step _pattern_based_routing takes for the current step: the index in
\* all_steps that state["current_step"] names (-1: past the end of all_steps).
RoutedIndex(fl) == IF ctx.current_step < FlowLen(fl) THEN ctx.current_step ELSE -1

\* The rule _pattern_based_routing takes for result in flow fl (0: none).
RoutedRule(fl, result) ==
    IF RoutedIndex(fl) < 0 THEN 0
    ELSE FirstMatch(FlowStep(fl, RoutedIndex(fl)).rules, result)

\* The record of one call of _pattern_based_routing (history): the flow, the
\* index in steps of the step whose result is routed (producer) and of the
\* step whose rules are read (owner), the rule taken and its goto_step, and
\* the index in steps at which the new flow starts.
Route(f, rule, newbase) ==
    [flow |-> f,
     producer |-> flows[f].base + flows[f].pos,
     owner |-> IF RoutedIndex(flows[f]) < 0 THEN -1
               ELSE flows[f].base + RoutedIndex(flows[f]),
     rule |-> rule,
     goto |-> IF rule = 0 THEN -1
              ELSE FlowStep(flows[f], RoutedIndex(flows[f])).rules[rule].goto_step,
     newbase |-> newbase]

\* The done-callback of a task that returned, when no rule of the routed step
\* matches: do_action publishes RUNNING with the result, the result goes to
\* the executor's observer, and concat goes on.  The run completes when
\* concat and every inner sequence of every flat_map have completed.
ResultFallsThrough(f) ==
    /\ flows[f].task = "ok"
    /\ LET result == StepResult(FlowStep(flows[f], flows[f].pos))
           next == Advance(flows[f])
           fls == [flows EXCEPT ![f] = next]
       IN
        /\ RoutedIndex(flows[f]) >= 0
        /\ RoutedRule(flows[f], result) = 0
        /\ Publish(<<Ev(f, flows[f], RUNNING, result)>> \o Begins(f, next))
        /\ routes' = Append(routes, Route(f, 0, -1))
        /\ flows' = fls
        /\ IF AllCompleted(fls)
           THEN /\ run' = "completed"
                /\ notes' = notes \o <<HandleStepResult(result, Len(published')),
                                       Note("completed", NoResult, Len(published'))>>
           ELSE /\ run' = run
                /\ notes' = Append(notes, HandleStepResult(result, Len(published')))
    /\ UNCHANGED <<steps, faulty, probe, initial_data, other, closed,
                   observers, ctx, attempts>>

\* The step observables built so far, and whether the flow a jump of flow fl
\* builds keeps them within the bound of the model.
RECURSIVE StepsBuilt(_)
StepsBuilt(fls) == IF fls = <<>> THEN 0 ELSE FlowLen(Head(fls)) + StepsBuilt(Tail(fls))

JumpBase(fl, result) ==
    LET goto == FlowStep(fl, RoutedIndex(fl)).rules[RoutedRule(fl, result)].goto_step
    IN fl.base + (IF goto < FlowLen(fl) THEN goto ELSE FlowLen(fl))

CanBuild(fl) ==
    LET result == StepResult(FlowStep(fl, fl.pos)) IN
    RoutedRule(fl, result) > 0
        => StepsBuilt(flows) + (Len(steps) - JumpBase(fl, result)) <= MaxStepRuns

\* The done-callback of a task that returned, when a rule of the routed step
\* matches: flat_map subscribes the flow built from all_steps[goto_step:], and
\* concat goes on.
ResultJumps(f) ==
    /\ flows[f].task = "ok"
    /\ CanBuild(flows[f])
    /\ LET result == StepResult(FlowStep(flows[f], flows[f].pos))
           rule == RoutedRule(flows[f], result)
       IN
        /\ rule > 0
        /\ LET newbase == JumpBase(flows[f], result)
               next == Advance(flows[f])
               fls == Append([flows EXCEPT ![f] = next], NewFlow(newbase))
           IN
            /\ Publish(<<Ev(f, flows[f], RUNNING, result)>>
                       \o Begins(Len(fls), NewFlow(newbase)) \o Begins(f, next))
            /\ routes' = Append(routes, Route(f, rule, newbase))
            /\ flows' = fls
            /\ IF AllCompleted(fls)
               THEN /\ run' = "completed"
                    /\ notes' = Append(notes, Note("completed", NoResult, Len(published')))
               ELSE UNCHANGED <<run, notes>>
    /\ UNCHANGED <<steps, faulty, probe, initial_data, other, closed,
                   observers, ctx, attempts>>

\* The done-callback of a task that returned, when state["current_step"] is
\* no index of all_steps: all_steps[current_step_index] raises IndexError,
\* which flat_map sends downstream as the error of the run.
ResultRoutingError(f) ==
    /\ flows[f].task = "ok"
    /\ RoutedIndex(flows[f]) < 0
    /\ Publish(<<Ev(f, flows[f], RUNNING, StepResult(FlowStep(flows[f], flows[f].pos)))>>)
    /\ routes' = Append(routes, Route(f, 0, -1))
    /\ flows' = DisposeAll([flows EXCEPT ![f].task = "misrouted"])
    /\ run' = "error"
    /\ notes' = Append(notes, Note("error", ErrorOf("IndexError"), Len(published')))
    /\ UNCHANGED <<steps, faulty, probe, initial_data, other, closed,
                   observers, ctx, attempts>>

Next ==
    \/ \E o \in Observers : SubscribeState(o)
    \/ StartRun
    \/ \E f \in DOMAIN flows : TaskSucceed(f)
    \/ \E f \in DOMAIN flows : TaskFail(f)
    \/ \E f \in DOMAIN flows : StepTimeout(f)
    \/ \E f \in DOMAIN flows : ResultFallsThrough(f)
    \/ \E f \in DOMAIN flows : ResultJumps(f)
    \/ \E f \in DOMAIN flows : ResultRoutingError(f)

Spec == Init /\ [][Next]_vars

\* ----------------------------------------------- runs with a deadline
\* A run_playbook whose wait stops only for a step without a deadline.
RunTimeoutUnlessStepWaits ==
    /\ run = "running"
    /\ \A f \in DOMAIN flows :
            flows[f].task = "awaiting" => HasTimeout(FlowStep(flows[f], flows[f].pos))
    /\ run' = "timeout"
    /\ flows' = DisposeAll(flows)
    /\ observers' = <<>>
    /\ closed' = closed + 1
    /\ UNCHANGED <<steps, faulty, probe, initial_data, other, received, published,
                   ctx, notes, routes, attempts>>

\* run_playbook: asyncio.wait_for(completion_event.wait(), timeout) expires
\* (timeout is the playbook's "timeout", 300 s by default) before the
\* executor's observer was called with an error or the completion:
\* TimeoutError is raised, and the finally clause disposes the subscriptions
\* to state_stream and to the executor.
RunTimeout ==
    /\ run = "running"
    /\ run' = "timeout"
    /\ flows' = DisposeAll(flows)
    /\ observers' = <<>>
    /\ closed' = closed + 1
    /\ UNCHANGED <<steps, faulty, probe, initial_data, other, received, published,
                   ctx, notes, routes, attempts>>

NextCli ==
    \/ Next
    \/ RunTimeout

SpecCli == Init /\ [][NextCli]_vars

\* ------------------------------------------- the exits of run_playbook
\* A run_playbook that closes the framework and keeps its subscription to
\* state_stream.
RunReturnsKeepsSubscription ==
    /\ run \in {"completed", "error"}
    /\ closed = 0
    /\ flows' = DisposeAll(flows)
    /\ closed' = closed + 1
    /\ UNCHANGED <<steps, faulty, probe, initial_data, other, observers, received,
                   published, ctx, run, notes, routes, attempts>>

\* run_playbook after the executor's observer was called with the completion
\* or an error: the wait for completion_event ends, the function returns or
\* raises the error, and the finally clause disposes the subscriptions to
\* state_stream and to the executor and closes the framework.
RunReturns ==
    /\ run \in {"completed", "error"}
    /\ closed = 0
    /\ flows' = DisposeAll(flows)
    /\ observers' = <<>>
    /\ closed' = closed + 1
    /\ UNCHANGED <<steps, faulty, probe, initial_data, other, received, published,
                   ctx, run, notes, routes, attempts>>

\* framework.initialize or create_dsl_executor raises: nothing is subscribed
\* yet, and the finally clause closes the framework.
SetupFails ==
    /\ run = "setup"
    /\ observers = <<>>
    /\ run' = "aborted"
    /\ closed' = closed + 1
    /\ UNCHANGED <<steps, faulty, probe, initial_data, other, observers, received,
                   published, ctx, flows, notes, routes, attempts>>

InitExit ==
    /\ steps \in {pb \in Playbooks : Len(pb) <= MaxRunSteps}
    /\ observers = <<>>
    /\ received = [o \in Observers |-> <<>>]
    /\ published = <<>>
    /\ initial_data = PyDict(<<>>)
    /\ ctx = NewContext
    /\ flows = <<>>
    /\ run = "setup"
    /\ notes = <<>>
    /\ routes = <<>>
    /\ attempts = <<>>
    /\ faulty = NoFaulty
    /\ probe = NoProbe
    /\ other = NoOther
    /\ closed = 0

NextExit ==
    \/ Next
    \/ RunTimeout
    \/ RunReturns
    \/ SetupFails

\* The loop serves every callback that is ready, and the wait of
\* run_playbook ends at its deadline at the latest.
SpecExit == InitExit /\ [][NextExit]_vars /\ WF_vars(NextExit)

\* ------------------------------------------- runs with a raising observer
\* One observer's callback raises on SUCCESS updates, on FAILED updates, or
\* on both.
Faulties ==
    {[o |-> o, on |-> on] : o \in Observers,
                            on \in {{SUCCESS}, {FAILED}, {SUCCESS, FAILED}}}

InitFaulty ==
    /\ steps \in Playbooks
    /\ observers = <<>>
    /\ received = [o \in Observers |-> <<>>]
    /\ published = <<>>
    /\ initial_data = PyDict(<<>>)
    /\ ctx = NewContext
    /\ flows = <<>>
    /\ run = "setup"
    /\ notes = <<>>
    /\ routes = <<>>
    /\ attempts = <<>>
    /\ faulty \in Faulties
    /\ probe = NoProbe
    /\ other = NoOther
    /\ closed = 0

NextFaulty ==
    \/ Next
    \/ \E f \in DOMAIN flows : TaskSucceedRaises(f)

SpecFaulty == InitFaulty /\ [][NextFaulty]_vars

\* --------------------------------------- playbooks with an unknown kind
\* The playbooks of the model, and those with one step of an unknown kind.
KindPlaybooks ==
    Playbooks
    \cup UNION {{[pb EXCEPT ![u].type = "bogus"] : u \in DOMAIN pb} : pb \in Playbooks}

InitKinds ==
    /\ steps \in KindPlaybooks
    /\ observers = <<>>
    /\ received = [o \in Observers |-> <<>>]
    /\ published = <<>>
    /\ initial_data = PyDict(<<>>)
    /\ ctx = NewContext
    /\ flows = <<>>
    /\ run = "setup"
    /\ notes = <<>>
    /\ routes = <<>>
    /\ attempts = <<>>
    /\ faulty = NoFaulty
    /\ probe = NoProbe
    /\ other = NoOther
    /\ closed = 0

SpecKinds == InitKinds /\ [][Next]_vars

\* ------------------------------------------------- _deep_pattern_match
MaxKeys == 2        \* keys of a mapping
MaxElems == 2       \* elements of a sequence

Keys == {"a", "b"}
Scalars == {PyNone, PyInt(1), PyInt(2)}

\* The mappings over at most MaxKeys of Keys, and the sequences of at most
\* MaxElems elements, with values and elements in vals.
DictsOver(vals) ==
    {PyDict(<<>>)}
    \cup UNION {{PyDict(f) : f \in [ks -> vals]} :
                 ks \in {k \in SUBSET Keys : k # {} /\ Cardinality(k) <= MaxKeys}}

ListsOver(vals) == UNION {{PyList(q) : q \in [1..n -> vals]} : n \in 0..MaxElems}

\* The values a call is made with: scalars, flat mappings and sequences, and
\* a mapping or a sequence with one nested mapping or sequence.
Values ==
    Scalars \cup DictsOver(Scalars) \cup ListsOver(Scalars)
    \cup {PyList(<<x>>) : x \in ListsOver(Scalars) \cup DictsOver(Scalars)}
    \cup {PyDict([key \in {"a"} |-> x]) : x \in DictsOver(Scalars) \cup ListsOver(Scalars)}

InitMatch ==
    /\ steps \in {<<>>}
    /\ observers = <<>>
    /\ received = [o \in Observers |-> <<>>]
    /\ published = <<>>
    /\ initial_data = PyDict(<<>>)
    /\ ctx = NewContext
    /\ flows = <<>>
    /\ run = "setup"
    /\ notes = <<>>
    /\ routes = <<>>
    /\ attempts = <<>>
    /\ faulty = NoFaulty
    /\ probe \in {[data |-> d, pattern |-> pt, done |-> FALSE, matched |-> FALSE] :
                     d \in Values, pt \in Values}
    /\ other = NoOther
    /\ closed = 0

\* self._deep_pattern_match(data, pattern) is called and returns.
Match ==
    /\ ~probe.done
    /\ probe' = [probe EXCEPT !.done = TRUE,
                              !.matched = DeepPatternMatch(probe.data, probe.pattern)]
    /\ UNCHANGED <<steps, observers, received, published, ctx, flows, run, notes,
                   routes, attempts, faulty, initial_data, other, closed>>

NextMatch == Match

SpecMatch == InitMatch /\ [][NextMatch]_vars

\* ------------------------------------------------------- _matches_pattern
\* The fields a rule may name: the two the engine knows and another one.
RuleFields == {"type", "data", "status"}

\* The results a rule is applied to: of two types, with no data (None), with
\* empty data and with data.
RuleResults ==
    {ResultOf(type, d) :
        type \in {"navigation", "extraction"},
        d \in Scalars \cup {PyInt(0), PyStr("")} \cup DictsOver(Scalars)
              \cup ListsOver(Scalars)}

\* The patterns of the rules: a field and a value, which is a type name, a
\* scalar, a mapping or a sequence.
RulePatterns ==
    {[field |-> field, value |-> value] :
        field \in RuleFields,
        value \in {PyStr("navigation"), PyStr("extraction")} \cup Scalars
                  \cup DictsOver(Scalars) \cup ListsOver(Scalars)}

InitRule ==
    /\ steps \in {<<>>}
    /\ observers = <<>>
    /\ received = [o \in Observers |-> <<>>]
    /\ published = <<>>
    /\ initial_data = PyDict(<<>>)
    /\ ctx = NewContext
    /\ flows = <<>>
    /\ run = "setup"
    /\ notes = <<>>
    /\ routes = <<>>
    /\ attempts = <<>>
    /\ faulty = NoFaulty
    /\ probe \in {[result |-> r, pattern |-> pt, done |-> FALSE, matched |-> FALSE] :
                     r \in RuleResults, pt \in RulePatterns}
    /\ other = NoOther
    /\ closed = 0

\* self._matches_pattern(result, pattern) is called and returns.
MatchRule ==
    /\ ~probe.done
    /\ probe' = [probe EXCEPT !.done = TRUE,
                              !.matched = MatchesPattern(probe.result, probe.pattern)]
    /\ UNCHANGED <<steps, observers, received, published, ctx, flows, run, notes,
                   routes, attempts, faulty, initial_data, other, closed>>

NextRule == MatchRule

SpecRule == InitRule /\ [][NextRule]_vars

\* ------------------------------------------- extraction and data checks
\* An extract_data step whose reads yield the values of the mapping fields.
ExtractStep(fields) ==
    [type |-> "extract_data", max_retries |-> 0, timeout |-> PyInt(0), rules |-> <<>>,
     extract |-> [key \in DOMAIN fields.v |->
                    [method |-> "evaluate_js", yields |-> fields.v[key]]]]

\* A conditional step with a data_check condition.
CheckStep(data_path, expected) ==
    [type |-> "conditional", max_retries |-> 0, timeout |-> PyInt(0), rules |-> <<>>,
     condition |-> [type |-> "data_check", data_path |-> data_path,
                    expected |-> expected]]

\* An extraction followed by a check, alone or after an earlier check.
DataPlaybooks ==
    UNION {{<<ExtractStep(d), CheckStep(path, e)>>,
            <<CheckStep(path, e), ExtractStep(d), CheckStep(path, e)>>} :
           d \in DictsOver(Scalars), path \in Keys, e \in Scalars}

\* The initial_data of the playbooks: none, one key and two keys.
InitialDatas ==
    {PyDict(<<>>), PyDict([key \in {"a"} |-> PyInt(1)]),
     PyDict([key \in Keys |-> PyInt(2)])}

InitData ==
    /\ steps \in DataPlaybooks
    /\ initial_data \in InitialDatas
    /\ observers = <<>>
    /\ received = [o \in Observers |-> <<>>]
    /\ published = <<>>
    /\ ctx = NewContext
    /\ flows = <<>>
    /\ run = "setup"
    /\ notes = <<>>
    /\ routes = <<>>
    /\ attempts = <<>>
    /\ faulty = NoFaulty
    /\ probe = NoProbe
    /\ other = NoOther
    /\ closed = 0

\* The steps of a playbook without rules and without deadlines run in
\* sequence: nothing jumps and no timer is set.
NextData ==
    \/ \E o \in Observers : SubscribeState(o)
    \/ StartRun
    \/ \E f \in DOMAIN flows : TaskSucceed(f)
    \/ \E f \in DOMAIN flows : TaskFail(f)
    \/ \E f \in DOMAIN flows : ResultFallsThrough(f)

SpecData == InitData /\ [][NextData]_vars

\* ------------------------------------------ playbooks without rules
\* The playbooks of the model whose steps have no routing rules.
SequentialPlaybooks == {pb \in Playbooks : \A i \in DOMAIN pb : pb[i].rules = <<>>}

InitSeq ==
    /\ steps \in SequentialPlaybooks
    /\ observers = <<>>
    /\ received = [o \in Observers |-> <<>>]
    /\ published = <<>>
    /\ initial_data = PyDict(<<>>)
    /\ ctx = NewContext
    /\ flows = <<>>
    /\ run = "setup"
    /\ notes = <<>>
    /\ routes = <<>>
    /\ attempts = <<>>
    /\ faulty = NoFaulty
    /\ probe = NoProbe
    /\ other = NoOther
    /\ closed = 0

\* Without rules no result jumps, and the routing reads the step that just
\* succeeded.
NextSeq ==
    \/ \E o \in Observers : SubscribeState(o)
    \/ StartRun
    \/ \E f \in DOMAIN flows : TaskSucceed(f)
    \/ \E f \in DOMAIN flows : TaskFail(f)
    \/ \E f \in DOMAIN flows : StepTimeout(f)
    \/ \E f \in DOMAIN flows : ResultFallsThrough(f)

\* The loop serves every callback that is ready, and every actuator call
\* ends: it returns, raises or is cancelled by the step's timer.
SpecSeq == InitSeq /\ [][NextSeq]_vars /\ WF_vars(NextSeq)

\* ------------------------------------------------- waits for a pattern
PatternKinds == {"url", "content", "element", "custom"}

\* A wait_for_pattern step without a step deadline; met tells whether the
\* page meets the condition within the pattern's own wait.
WaitStep(kind, met, max_retries) ==
    [type |-> "wait_for_pattern", max_retries |-> max_retries, timeout |-> PyInt(0),
     rules |-> <<>>, pattern |-> [type |-> kind, met |-> met]]

WaitSteps ==
    {WaitStep(kind, met, mr) :
        kind \in PatternKinds, met \in BOOLEAN, mr \in 0..MaxRetries}

\* One wait, and two waits in sequence.
WaitPlaybooks == {<<w>> : w \in WaitSteps} \cup {<<w, x>> : w, x \in WaitSteps}

InitWait ==
    /\ steps \in WaitPlaybooks
    /\ observers = <<>>
    /\ received = [o \in Observers |-> <<>>]
    /\ published = <<>>
    /\ initial_data = PyDict(<<>>)
    /\ ctx = NewContext
    /\ flows = <<>>
    /\ run = "setup"
    /\ notes = <<>>
    /\ routes = <<>>
    /\ attempts = <<>>
    /\ faulty = NoFaulty
    /\ probe = NoProbe
    /\ other = NoOther
    /\ closed = 0

\* The wait of a wait_for_pattern step expires and raises: the task
\* publishes FAILED and raises again, as for any error of the step.
WaitExpires(f) ==
    /\ flows[f].task = "awaiting"
    /\ WaitRaises(FlowStep(flows[f], flows[f].pos))
    /\ HandleError(f, <<Ev(f, flows[f], FAILED, ErrorOf("TimeoutError"))>>,
                   "TimeoutError")
    /\ attempts' = Append(attempts, Attempt(f, flows[f], "error"))
    /\ UNCHANGED <<steps, faulty, probe, initial_data, other, closed,
                   observers, ctx, routes>>

\* The page stays alive: a wait ends when its condition is met or when its
\* own wait expires, and nothing else fails.
NextWait ==
    \/ \E o \in Observers : SubscribeState(o)
    \/ StartRun
    \/ \E f \in DOMAIN flows : TaskSucceed(f)
    \/ \E f \in DOMAIN flows : WaitExpires(f)
    \/ \E f \in DOMAIN flows : ResultFallsThrough(f)

SpecWait == InitWait /\ [][NextWait]_vars

\* ------------------------------------------ two runs on one framework
InitRuns ==
    /\ steps \in {pb \in SequentialPlaybooks : Len(pb) <= MaxRunSteps}
    /\ observers = <<>>
    /\ received = [o \in Observers |-> <<>>]
    /\ published = <<>>
    /\ initial_data = PyDict(<<>>)
    /\ ctx = NewContext
    /\ flows = <<>>
    /\ run = "setup"
    /\ notes = <<>>
    /\ routes = <<>>
    /\ attempts = <<>>
    /\ faulty = NoFaulty
    /\ probe = NoProbe
    /\ other = NoOther
    /\ closed = 0

\* The executor is subscribed a second time while the first run is under
\* way: _execute_dsl_pipeline assigns a new context to self.current_context
\* and subscribes a flow of all the steps.  The events of the second run
\* carry flow number 0; its calls return, and its own observer is not kept.
OtherStart ==
    /\ run = "running"
    /\ ~other.started
    /\ ctx' = NewContext
    /\ other' = [started |-> TRUE, at |-> Len(published), flow |-> NewFlow(0)]
    /\ Publish(<<EvSeen(0, NewFlow(0), RUNNING, NoResult, NewContext)>>)
    /\ UNCHANGED <<steps, faulty, probe, initial_data, closed, observers, flows, run,
                   notes, routes, attempts>>

\* An actuator call of the second run returns: its task updates the context,
\* which is the current one, and publishes SUCCESS.
OtherTaskSucceed ==
    /\ other.started
    /\ other.flow.task = "awaiting"
    /\ LET result == StepResult(FlowStep(other.flow, other.flow.pos))
           updated == [ctx EXCEPT !.last_result = result,
                                  !.current_step = other.flow.pos]
       IN
        /\ ctx' = updated
        /\ Publish(<<EvSeen(0, other.flow, SUCCESS, result, updated)>>)
    /\ other' = [other EXCEPT !.flow.task = "ok"]
    /\ UNCHANGED <<steps, faulty, probe, initial_data, closed, observers, flows, run,
                   notes, routes, attempts>>

\* The done-callback of a task of the second run: do_action publishes
\* RUNNING with the result, no rule is there to match, and concat goes on.
OtherResult ==
    /\ other.started
    /\ other.flow.task = "ok"
    /\ LET result == StepResult(FlowStep(other.flow, other.flow.pos))
           next == Advance(other.flow)
       IN
        /\ Publish(<<Ev(0, other.flow, RUNNING, result)>> \o Begins(0, next))
        /\ other' = [other EXCEPT !.flow = next]
    /\ UNCHANGED <<steps, faulty, probe, initial_data, closed, observers, ctx, flows,
                   run, notes, routes, attempts>>

NextRuns ==
    \/ \E o \in Observers : SubscribeState(o)
    \/ StartRun
    \/ \E f \in DOMAIN flows : TaskSucceed(f)
    \/ \E f \in DOMAIN flows : TaskFail(f)
    \/ \E f \in DOMAIN flows : StepTimeout(f)
    \/ \E f \in DOMAIN flows : ResultFallsThrough(f)
    \/ OtherStart
    \/ OtherTaskSucceed
    \/ OtherResult

SpecRuns == InitRuns /\ [][NextRuns]_vars

\* ================================================================ claims
\* The events of one execution of a step: those flow f published for the
\* step at index orig of steps, in order.
Execution(f, orig) ==
    SelectSeq(published, LAMBDA e : e.flow = f /\ e.orig = orig)

CountState(f, orig, state) ==
    Len(SelectSeq(published, LAMBDA e : e.flow = f /\ e.orig = orig /\ e.state = state))

\* The attempts of one execution of a step that ended by now.
AttemptsOf(f, orig) ==
    SelectSeq(attempts, LAMBDA a : a.flow = f /\ a.orig = orig)

\* C1 (as claimed): a step with max_retries = N >= 1 whose first k attempts
\* fail (1 <= k <= N) and whose attempt k + 1 succeeds ends in success, with
\* exactly one SUCCESS and exactly k RETRYING events for it.  Stated on every
\* execution: an attempt that failed with k <= N is followed by attempt k + 1
\* (the failure does not end the run), and a success on attempt k + 1 has
\* one SUCCESS and k RETRYING events.
C1_RetryThenSuccess ==
    \A i \in DOMAIN attempts :
        LET a == attempts[i]
            N == steps[a.orig + 1].max_retries
        IN (N >= 1 /\ a.sub <= N + 1) =>
            /\ (a.outcome # "ok" /\ a.sub <= N) =>
                    ~(flows[a.flow].task = "failed" /\ flows[a.flow].subs = a.sub)
            /\ (a.outcome = "ok" /\ a.sub >= 2) =>
                    /\ CountState(a.flow, a.orig, SUCCESS) = 1
                    /\ CountState(a.flow, a.orig, RETRYING) = a.sub - 1

\* C2 (as claimed): a step with max_retries = N whose every attempt fails is
\* attempted exactly N + 1 times before its failure ends the run.
C2_AttemptsBeforeFailure ==
    \A f \in DOMAIN flows :
        flows[f].task = "failed" =>
            flows[f].subs = FlowStep(flows[f], flows[f].pos).max_retries + 1

\* C3: a step with max_retries = 0 is attempted once: the failure of its
\* first attempt, by error or by timeout, ends the run with an error for the
\* executor's observer, no second attempt is made and no RETRYING event is
\* published.
C3_NoRetryWhenZero ==
    /\ \A i \in DOMAIN attempts :
        LET a == attempts[i] IN
        steps[a.orig + 1].max_retries = 0 =>
            /\ a.sub = 1
            /\ a.outcome # "ok" =>
                /\ run = "error"
                /\ flows[a.flow].task = "failed"
                /\ notes[Len(notes)].kind = "error"
                /\ \A j \in DOMAIN attempts : j > i => attempts[j].flow # a.flow
    /\ \A i \in DOMAIN published :
        LET e == published[i] IN
        steps[e.orig + 1].max_retries = 0 => e.sub = 1 /\ e.state # RETRYING

\* C3's case: the first attempt of a step with max_retries = 0 and a deadline
\* timed out while another flow was in flight.
C3_Witness ==
    \E i \in DOMAIN attempts :
        /\ steps[attempts[i].orig + 1].max_retries = 0
        /\ attempts[i].outcome = "timeout"
        /\ run = "error"
        /\ Len(flows) >= 2

\* C4 (as claimed): when the result of a step takes a rule whose target is
\* beyond the next index, the steps between are skipped: after the jump the
\* flow that jumped publishes no event for an index between the step and the
\* target.
C4_JumpSkipsBetween ==
    \A i \in DOMAIN routes :
        LET r == routes[i] IN
        (r.rule > 0 /\ flows[r.flow].base = 0 /\ r.goto > r.producer + 1) =>
            \A j \in DOMAIN published :
                ~(/\ published[j].flow = r.flow
                  /\ published[j].orig > r.producer
                  /\ published[j].orig < r.goto)

\* C5 (as claimed): a rule taken with a target at or before the current step
\* runs the step at that index of the playbook again, as a new execution
\* with its first subscription.
C5_BackwardJumpRunsTarget ==
    \A i \in DOMAIN routes :
        LET r == routes[i] IN
        (r.rule > 0 /\ r.goto <= r.producer) =>
            /\ r.newbase = r.goto
            /\ \E f \in DOMAIN flows : flows[f].base = r.goto /\ f > r.flow

\* C6 (as claimed): the rules evaluated for a result are those of the step
\* that produced it, and the rule taken is the first of them that matches.
C6_RulesOfProducer ==
    \A i \in DOMAIN routes :
        LET r == routes[i] IN
        /\ r.owner = r.producer
        /\ r.rule = FirstMatch(steps[r.producer + 1].rules,
                               StepResult(steps[r.producer + 1]))

\* The state that may follow prev among the events of one execution of a
\* step, in the order RUNNING (FAILED RETRYING RUNNING)* (SUCCESS | FAILED).
MayFollow(prev, state) ==
    \/ prev = RUNNING /\ state \in {SUCCESS, FAILED}
    \/ prev = FAILED /\ state = RETRYING
    \/ prev = RETRYING /\ state = RUNNING

\* C7 (as claimed): the events of one execution of a step come in the order
\* RUNNING (FAILED RETRYING RUNNING)* (SUCCESS | FAILED): the first is
\* RUNNING, and every later one may follow the one before it; nothing follows
\* SUCCESS.
C7_EventOrder ==
    \A f \in DOMAIN flows : \A orig \in 0..(Len(steps) - 1) :
        LET ex == Execution(f, orig) IN
        /\ Len(ex) > 0 => ex[1].state = RUNNING
        /\ \A i \in 1..(Len(ex) - 1) : MayFollow(ex[i].state, ex[i + 1].state)

C9_NoTimeoutWhenDisabled ==
    \A i \in DOMAIN attempts :
        LET a == attempts[i] IN
        /\ a.outcome = "timeout" =>
            /\ steps[a.orig + 1].timeout # PyInt(0)
            /\ steps[a.orig + 1].timeout # PyNone
        /\ (a.outcome = "ok" /\ steps[a.orig + 1].timeout \in {PyInt(0), PyNone}) =>
            \E j \in DOMAIN published :
                /\ published[j].flow = a.flow /\ published[j].orig = a.orig
                /\ published[j].sub = a.sub /\ published[j].state = SUCCESS

\* C9's case: a step with timeout 0 and a step with timeout None have each
\* returned from their actuator call and succeeded.
C9_Witness ==
    /\ \E i \in DOMAIN attempts :
        attempts[i].outcome = "ok" /\ steps[attempts[i].orig + 1].timeout = PyInt(0)
    /\ \E i \in DOMAIN attempts :
        attempts[i].outcome = "ok" /\ steps[attempts[i].orig + 1].timeout = PyNone

\* C10: observers subscribed before the run starts receive the same sequence:
\* every event published, once and in the order of publication.
C10_SameSequence ==
    \A o \in Observers :
        (\E i \in 1..Len(observers) : observers[i] = o) =>
            /\ Len(received[o]) = Len(published)
            /\ \A i \in DOMAIN published : received[o][i] = Update(published[i])

\* C10's case: two observers have received the events of a run in which two
\* flows published in turn.
C10_Witness ==
    /\ Len(observers) >= 2
    /\ \E i, j, k \in DOMAIN published :
        /\ i < j /\ j < k
        /\ published[i].flow = published[k].flow
        /\ published[i].flow # published[j].flow

\* C11 (as claimed): an observer of state_stream whose callback raises does
\* not make an attempt or the run fail, and every other subscribed observer
\* receives every update published, in order.
C11_SubscriberIsolation ==
    /\ \A i \in DOMAIN attempts : attempts[i].outcome # "callback"
    /\ \A n \in DOMAIN notes : notes[n].result # ErrorOf("callback")
    /\ \A o \in Observers :
        ((\E i \in 1..Len(observers) : observers[i] = o) /\ o # faulty.o) =>
            /\ Len(received[o]) = Len(published)
            /\ \A i \in DOMAIN published : received[o][i] = Update(published[i])

\* C12 (as claimed): a step of an unknown kind is attempted once, whatever
\* its max_retries: every attempt of it is its first, and its failure ends
\* the run with an error.
C12_UnknownKindTerminal ==
    \A i \in DOMAIN attempts :
        LET a == attempts[i] IN
        steps[a.orig + 1].type \notin KnownKinds =>
            /\ a.sub = 1
            /\ a.outcome = "error"
            /\ run = "error"

\* C13 (as claimed): for a mapping pattern and mapping data the match holds
\* iff every key of the pattern is a key of the data and the data's value
\* for it matches the pattern's value.
C13_MappingSubset ==
    (probe.done /\ probe.pattern.k = "dict" /\ probe.data.k = "dict") =>
        (probe.matched <=>
            \A key \in DOMAIN probe.pattern.v :
                /\ key \in DOMAIN probe.data.v
                /\ DeepPatternMatch(probe.data.v[key], probe.pattern.v[key]))

\* The sequence q with its first and last elements exchanged.
Swapped(q) ==
    [i \in DOMAIN q |-> IF i = 1 THEN q[Len(q)] ELSE IF i = Len(q) THEN q[1] ELSE q[i]]

\* C14: for a sequence pattern and sequence data the match holds iff every
\* element of the pattern matches some element of the data, whatever the
\* positions, the order and the multiplicity: the empty pattern matches, and
\* the result is the same for the data in another order; a pattern and data
\* of different shapes do not match.
C14_SequenceExistential ==
    probe.done =>
        /\ (probe.pattern.k = "list" /\ probe.data.k = "list") =>
            /\ probe.matched <=>
                    \A p \in 1..Len(probe.pattern.v) : \E d \in 1..Len(probe.data.v) :
                        DeepPatternMatch(probe.data.v[d], probe.pattern.v[p])
            /\ probe.pattern.v = <<>> => probe.matched
            /\ probe.matched <=>
                    DeepPatternMatch(PyList(Swapped(probe.data.v)), probe.pattern)
            /\ probe.matched <=>
                    DeepPatternMatch(probe.data, PyList(Swapped(probe.pattern.v)))
        /\ (probe.pattern.k # probe.data.k) => ~probe.matched

\* C14's case: a pattern of two different elements matched data that holds
\* them in the other order.
C14_Witness ==
    /\ probe.done /\ probe.matched
    /\ probe.pattern.k = "list" /\ probe.data.k = "list"
    /\ Len(probe.pattern.v) = 2 /\ Len(probe.data.v) = 2
    /\ ~PyEq(probe.data.v[1], probe.pattern.v[1])
    /\ ~PyEq(probe.pattern.v[1], probe.pattern.v[2])

Terminal(n) == notes[n].kind \in {"error", "completed"}

\* C16: the executor's observer gets at most one terminal call, an error or
\* the completion, and no call after it; the completion is delivered exactly
\* when every flow has completed, and an error exactly when a step failed
\* for good or the routing of a result raised.
C16_OneTerminalOutcome ==
    /\ \A n \in DOMAIN notes : Terminal(n) => n = Len(notes)
    /\ run = "completed" <=>
            (notes # <<>> /\ notes[Len(notes)].kind = "completed")
    /\ run = "error" <=>
            (notes # <<>> /\ notes[Len(notes)].kind = "error")
    /\ run = "completed" <=> (flows # <<>> /\ AllCompleted(flows))
    /\ run = "error" <=>
            \E f \in DOMAIN flows : flows[f].task \in {"failed", "misrouted"}

\* C16's case: a run of two flows has completed after results were passed to
\* the executor's observer.
C16_Witness ==
    /\ run = "completed"
    /\ Len(flows) >= 2
    /\ Len(notes) >= 3
    /\ notes[Len(notes)].kind = "completed"

\* C17 (as claimed): every attempt that failed, by an error of the actuator
\* call or by the step timeout, has a FAILED event that carries an error,
\* and every FAILED event follows a RUNNING event of the same attempt.
C17_FailedPerFailedAttempt ==
    /\ \A i \in DOMAIN attempts :
        LET a == attempts[i] IN
        a.outcome \in {"error", "timeout"} =>
            \E j \in DOMAIN published :
                /\ published[j].flow = a.flow /\ published[j].orig = a.orig
                /\ published[j].sub = a.sub /\ published[j].state = FAILED
                /\ published[j].result.tag = "error"
    /\ \A j \in DOMAIN published :
        published[j].state = FAILED =>
            \E i \in 1..(j - 1) :
                /\ published[i].flow = published[j].flow
                /\ published[i].orig = published[j].orig
                /\ published[i].sub = published[j].sub
                /\ published[i].state = RUNNING

\* C18 (as claimed): an attempt that ended by the step timeout is a
\* transient failure: while retries remain (the attempt is not later than
\* attempt max_retries) it does not end the run, the step is attempted again.
C18_TimeoutIsTransient ==
    \A i \in DOMAIN attempts :
        LET a == attempts[i]
            N == steps[a.orig + 1].max_retries
        IN (a.outcome = "timeout" /\ a.sub <= N) =>
            /\ ~(flows[a.flow].task = "failed" /\ flows[a.flow].subs = a.sub)
            /\ \E j \in DOMAIN published :
                /\ published[j].flow = a.flow /\ published[j].orig = a.orig
                /\ published[j].sub = a.sub + 1 /\ published[j].state = RUNNING

\* C19 (as claimed): at most one step is in flight at any time: at most one
\* flow has a task that is in its actuator call or whose result has not been
\* routed yet.
C19_OneStepInFlight ==
    \A f, g \in DOMAIN flows :
        (flows[f].task \in Live /\ flows[g].task \in Live) => f = g

\* C20 (as claimed): step indices are positions in the playbook: the
\* step_index of every event is the position in steps of the step it is
\* about, and a rule taken with goto_step t starts the new flow at position
\* t of steps.
C20_StableIndices ==
    /\ \A j \in DOMAIN published : published[j].step_index = published[j].orig
    /\ \A i \in DOMAIN routes : routes[i].rule > 0 => routes[i].newbase = routes[i].goto
    /\ ctx.current_step \in 0..(Len(steps) - 1)

\* An attempt has just ended in failure: by an error of the actuator call or
\* by the step timeout.
AttemptFailed ==
    /\ Len(attempts') = Len(attempts) + 1
    /\ attempts'[Len(attempts')].outcome \in {"error", "timeout"}

StepAt(orig) == steps[orig + 1]

\* C22 (as claimed): the context's data starts as the playbook's
\* initial_data; when SUCCESS is published for an extract_data step the data
\* holds every field the step extracted; and a data_check that succeeds
\* after an extraction of its data_path compares the extracted value with
\* the expected one.
C22_DataBag ==
    /\ published # <<>> => published[1].seen.data = initial_data
    /\ \A j \in DOMAIN published :
            (published[j].state = SUCCESS
             /\ StepAt(published[j].orig).type = "extract_data") =>
                \A key \in DOMAIN published[j].result.data.v :
                    /\ key \in DOMAIN published[j].seen.data.v
                    /\ published[j].seen.data.v[key] = published[j].result.data.v[key]
    /\ \A i, j \in DOMAIN published :
            (/\ i < j
             /\ published[i].state = SUCCESS
             /\ StepAt(published[i].orig).type = "extract_data"
             /\ published[j].state = SUCCESS
             /\ StepAt(published[j].orig).type = "conditional"
             /\ StepAt(published[j].orig).condition.data_path
                    \in DOMAIN published[i].result.data.v) =>
                published[j].result.result =
                    PyEq(published[i].result.data.v[
                            StepAt(published[j].orig).condition.data_path],
                         StepAt(published[j].orig).condition.expected)

\* A step of the first run has just succeeded while a second run is there.
FirstRunStepSucceeded ==
    /\ other.started
    /\ Len(attempts') = Len(attempts) + 1
    /\ attempts'[Len(attempts')].outcome = "ok"

\* C23 (as claimed): with a second run started on the framework, the routing
\* of the first run reads the rules of the step whose result it routes (its
\* own current step), and a step of the first run that succeeds leaves the
\* context of the second run, which is the framework's current one, as it
\* was.
C23_OwnContext ==
    /\ [](\A i \in DOMAIN routes : routes[i].owner = routes[i].producer)
    /\ [][FirstRunStepSucceeded => ctx' = ctx]_vars

\* The step at index orig is a wait_for_pattern whose condition the page
\* does not meet within the pattern's own wait.
UnmetWait(orig) ==
    StepAt(orig).type = "wait_for_pattern" /\ ~StepAt(orig).pattern.met

\* C24 (as claimed): whatever the kind of its condition, an attempt of a
\* wait_for_pattern step whose condition is not met ends as a successful
\* attempt, and the result published with its SUCCESS has matched = false.
C24_UnmetWaitSucceeds ==
    /\ \A a \in DOMAIN attempts :
            UnmetWait(attempts[a].orig) => attempts[a].outcome = "ok"
    /\ \A j \in DOMAIN published :
            UnmetWait(published[j].orig) =>
                /\ published[j].state # FAILED
                /\ published[j].state = SUCCESS => ~published[j].result.matched

\* C25: a rule matches exactly when its field is "type" and the result's
\* type equals its value, or its field is "data", the result has non-empty
\* data and the data deep-matches its value; so a rule with another field
\* never matches, and neither does a "data" rule on a result whose data is
\* absent or empty, whatever its value.
C25_RuleTaken ==
    probe.done =>
        /\ probe.matched <=>
                \/ /\ probe.pattern.field = "type"
                   /\ probe.pattern.value = PyStr(probe.result.type)
                \/ /\ probe.pattern.field = "data"
                   /\ Truthy(probe.result.data)
                   /\ DeepPatternMatch(probe.result.data, probe.pattern.value)
        /\ probe.pattern.field \notin {"type", "data"} => ~probe.matched
        /\ (probe.pattern.field = "data" /\ ~Truthy(probe.result.data)) => ~probe.matched

\* C25's case: a "data" rule whose value is the empty mapping was applied to
\* a result without data, and did not match.
C25_Witness ==
    /\ probe.done
    /\ probe.pattern.field = "data"
    /\ probe.pattern.value = PyDict(<<>>)
    /\ probe.result.data = PyNone
    /\ ~probe.matched

\* The attempts made so far: the subscriptions of step observables whose task
\* has ended.
AttemptCount == Cardinality({<<attempts[a].flow, attempts[a].orig, attempts[a].sub>> :
                                a \in DOMAIN attempts})

\* The sum over the steps of max_retries + 1.
RECURSIVE SumAttempts(_)
SumAttempts(sts) ==
    IF sts = <<>> THEN 0 ELSE Head(sts).max_retries + 1 + SumAttempts(Tail(sts))

\* C26: a playbook without rules whose actuator calls all end reaches a
\* terminal outcome, completion or a terminal failure, and never makes more
\* attempts than the sum over its steps of max_retries + 1.
C26_Terminates ==
    /\ [](AttemptCount <= SumAttempts(steps))
    /\ <>(run \in {"completed", "error"})

\* C26's case: a run of several steps has ended after as many attempts as
\* the bound allows, and a run has ended after a retried failure.
C26_Witness ==
    /\ run \in {"completed", "error"}
    /\ Len(steps) > 1
    /\ AttemptCount = SumAttempts(steps)
    /\ \E a \in DOMAIN attempts : attempts[a].outcome \in {"error", "timeout"}

====
